---- MODULE Spec2Model ----
(***************************************************************************)
(* ServiceInjector (src/src/lib/injector.ts): a registry of service        *)
(* factories keyed by unique symbols, with lifecycle-aware resolution.     *)
(*                                                                         *)
(* A registry value is a record of its two private readonly fields,        *)
(* factories and cache.  Every registry ever created stays reachable by    *)
(* the caller, so the model keeps them all in the sequence `registries`.   *)
(* Service instances are numbers: a positive number is the identity of an  *)
(* object allocated by a factory, Falsy is a falsy primitive returned by   *)
(* a factory, Undefined is JavaScript's undefined.                         *)
(***************************************************************************)
EXTENDS Integers, Sequences, FiniteSets, TLC

\* ----------------------------------------------------------------- bounds
MaxRegs == 4     \* registry values created (the root included)
MaxInst == 3     \* objects allocated by factories
MaxDeps == 2     \* length of a deps tuple passed to registerFactory / make
MaxDepth == 4    \* nested get frames before the call stack is exhausted

\* ------------------------------------------------------------- vocabulary
Keys == {"a", "b", "c"}

GlobalSingleton == "GlobalSingleton"
LocalSingleton == "LocalSingleton"
Ephemeral == "Ephemeral"
Lifecycles == {GlobalSingleton, LocalSingleton, Ephemeral}

\* the optional `lifecycle` field left out
NoLifecycle == "undefined"
LifecycleOpts == Lifecycles \cup {NoLifecycle}

\* what a registered factory does when invoked: allocate a new object,
\* return a falsy primitive (0, '', null, false), or throw
FactoryKinds == {"object", "falsy", "throws"}
\* `new classConstructor(...args)` yields an object or throws
ConstructorKinds == {"object", "throws"}

Undefined == -1
Falsy == 0
Null == -2
\* what a factory of kind "falsy" returns is its own business: one call may
\* give 0 and the next null
Primitives == {Falsy, Null}

\* The deps tuples the caller writes: tuples of distinct keys among a and b,
\* which cover the wiring of the README and of the registry chain test (a
\* leaf, a service over it, a service over both).
DepKeys == {"a", "b"}
DepLists ==
    {d \in UNION {[1..n -> DepKeys] : n \in 0..MaxDeps} :
        \A i, j \in DOMAIN d : i # j => d[i] # d[j]}

\* The service definitions the caller registers: key a over <<>>, re-registered
\* over itself, key b over <<a>>, key c over <<b, a>>; the lifecycle and the
\* factory's behaviour vary one at a time around (LocalSingleton, object); the
\* factory that returns a primitive is that of a leaf.
Wirings ==
    {w \in Keys \X DepLists :
        \/ w[1] = "a" /\ w[2] \in {<<>>, <<"a">>}
        \/ w[1] = "b" /\ w[2] = <<"a">>
        \/ w[1] = "c" /\ w[2] = <<"b", "a">>}
Profiles ==
    {p \in LifecycleOpts \X FactoryKinds :
        p[2] = "object" \/ p[1] = LocalSingleton}
Services ==
    {s \in {[key |-> w[1], deps |-> w[2], lifecycle |-> p[1], kind |-> p[2]] :
                w \in Wirings, p \in Profiles} :
        s.kind = "falsy" => s.deps = <<>>}
\* the classes of the README: A over <<>>, B over <<A>>, C over <<B, A>>, whose
\* factory is `new`
Classes ==
    {s \in Services :
        /\ s.kind \in ConstructorKinds
        /\ s.key = "a" => s.deps = <<>>}
\* the factory handed to make computes a primitive from the services or throws
MakeKinds == {"falsy", "throws"}

EmptyMap == [k \in {} |-> Undefined]

\* obj[key]: undefined when the property is absent
Lookup(obj, key) == IF key \in DOMAIN obj THEN obj[key] ELSE Undefined

\* {...obj, [key]: value}
Put(obj, key, value) ==
    [k \in DOMAIN obj \cup {key} |-> IF k = key THEN value ELSE obj[k]]

\* `if (maybeGlobal)` / `if (maybeLocal)`: the cache test is a truthiness test
Truthy(v) == v > 0

VARIABLES
    instance,      \* static ServiceInjector.instance: 0 (undefined) or the root's index
    globalCache,   \* static ServiceInjector.globalCache: [defined, map]
    registries,    \* every ServiceInjector value constructed so far
    allocated,     \* how many objects factories have allocated; the next one is allocated + 1
    origin         \* per registry: how it was made, from which one, with which cache

vars == <<instance, globalCache, registries, allocated, origin>>

\* private constructor(factories, cache)
NewInjector(factories, cache) == [factories |-> factories, cache |-> cache]

\* lifecycle = Lifecycle.GlobalSingleton  (default of the destructured option)
DefaultLifecycle(lifecycle) ==
    IF lifecycle = NoLifecycle THEN GlobalSingleton ELSE lifecycle

\* ------------------------------------------------------------------- get
Event(ev, key, depth, val, fid, args) ==
    [ev |-> ev, key |-> key, depth |-> depth, val |-> val, fid |-> fid, args |-> args]

Throw(st, error) == [st EXCEPT !.status = error, !.value = Undefined]

Return(st, key, depth, v) ==
    [st EXCEPT !.status = "ok", !.value = v,
               !.log = Append(@, Event("return", key, depth, v, 0, <<>>))]

\* factory(...deps)
Invoke(st, key, factory, args, depth) ==
    LET called == [st EXCEPT !.log =
                      Append(@, Event("call", key, depth, Undefined, factory.id, args))]
    IN  CASE factory.kind = "throws" -> Throw(called, "FactoryError")
          [] factory.kind = "falsy" -> [called EXCEPT !.value = st.primitive]
          [] OTHER -> [called EXCEPT !.allocated = @ + 1, !.value = st.allocated + 1]

\* lines 187-191: store the fresh instance where the lifecycle says
Store(st, lifecycle, key, value) ==
    IF lifecycle = GlobalSingleton
    THEN [st EXCEPT !.gc.map = Put(@, key, value)]
    ELSE IF lifecycle = LocalSingleton
         THEN [st EXCEPT !.cache = Put(@, key, value)]
         ELSE st

\* Settle, were the instance stored in a `finally`: a throw is stored too
SettleStoring(c, lifecycle, key, depth) ==
    IF c.status # "ok"
    THEN Store(c, lifecycle, key, c.value)
    ELSE Return(Store(c, lifecycle, key, c.value), key, depth, c.value)

\* what follows `factory(...deps)`: a throw leaves get at once, a value is
\* stored per lifecycle and returned
Settle(c, lifecycle, key, depth) ==
    IF c.status # "ok"
    THEN c
    ELSE Return(Store(c, lifecycle, key, c.value), key, depth, c.value)

\* Spread, were the resolved values handed over last first
SpreadReversed(deps) == [i \in 1..Len(deps) |-> deps[Len(deps) + 1 - i]]

\* the arguments spread into the factory, in the order of depKeys
Spread(deps) == deps

RECURSIVE get(_, _, _, _)
RECURSIVE mapGet(_, _, _, _)

\* depKeys.map((key) => this.get(key)): left to right, the first throw ends it
mapGet(st, factories, depKeys, depth) ==
    IF depKeys = <<>>
    THEN [st |-> st, vals |-> <<>>]
    ELSE LET h == get(st, factories, Head(depKeys), depth)
         IN  IF h.status # "ok"
             THEN [st |-> h, vals |-> <<>>]
             ELSE LET t == mapGet(h, factories, Tail(depKeys), depth)
                  IN  [st |-> t.st, vals |-> <<h.value>> \o t.vals]

\* this.get(key) with this.factories = factories, this.cache = st.cache
get(st, factories, key, depth) ==
    LET entered == [st EXCEPT !.log = Append(@, Event("enter", key, depth, Undefined, 0, <<>>))]
    IN
    IF depth > MaxDepth
    THEN Throw(entered, "RangeError")                 \* call stack exhausted
    ELSE IF key \notin DOMAIN factories
    THEN Throw(entered, "TypeError")                  \* destructuring undefined
    ELSE
    LET d == factories[key]
    IN
    IF d.lifecycle = GlobalSingleton /\ ~st.gc.defined
    THEN Throw(entered, "TypeError")                  \* globalCache is undefined
    ELSE IF d.lifecycle = GlobalSingleton /\ Truthy(Lookup(st.gc.map, key))
    THEN Return(entered, key, depth, Lookup(st.gc.map, key))
    ELSE IF d.lifecycle = LocalSingleton /\ Truthy(Lookup(st.cache, key))
    THEN Return(entered, key, depth, Lookup(st.cache, key))
    ELSE
    LET m == mapGet(entered, factories, d.deps, depth + 1)
    IN
    IF m.st.status # "ok"
    THEN m.st
    ELSE
    Settle(Invoke(m.st, key, d.factory, Spread(m.vals), depth), d.lifecycle, key, depth)

\* the resolution state a call on registry r starts from; primitive is what
\* the factories of kind "falsy" return while the call lasts
Start(r, primitive) ==
    [gc |-> globalCache, cache |-> registries[r].cache, allocated |-> allocated,
     primitive |-> primitive, log |-> <<>>, status |-> "ok", value |-> Undefined]

\* r.get(key) evaluated in the current state
GetResult(r, key, primitive) ==
    get(Start(r, primitive), registries[r].factories, key, 1)

\* r.make(depKeys, factory) evaluated in the current state
MakeResult(r, depKeys, kind, primitive) ==
    LET m == mapGet(Start(r, primitive), registries[r].factories, depKeys, 1)
    IN  IF m.st.status # "ok"
        THEN m.st
        ELSE Invoke(m.st, "make", [kind |-> kind, id |-> 0], Spread(m.vals), 0)

\* ------------------------------------------------------------- provenance
\* how a registry came to be: "root", "fork" or "register", from which registry,
\* and what that registry's local cache was at that moment
Origin(via, parent, cache) ==
    [via |-> via, parent |-> parent, cache |-> cache]

\* the effect of a finished get or make on the program state
Commit(r, res) ==
    /\ res.allocated <= MaxInst
    /\ globalCache' = res.gc
    /\ registries' = [registries EXCEPT ![r].cache = res.cache]
    /\ allocated' = res.allocated
    /\ UNCHANGED <<instance, origin>>

\* ---------------------------------------------------------------- actions
Init ==
    /\ instance = 0
    /\ globalCache = [defined |-> FALSE, map |-> EmptyMap]
    /\ registries = <<>>
    /\ allocated = 0
    /\ origin = <<>>

\* GetRoot, were the `if (!this.instance)` test forgotten
GetRootFresh ==
    /\ Len(registries) < MaxRegs
    /\ registries' = Append(registries, NewInjector(EmptyMap, EmptyMap))
    /\ origin' = Append(origin, Origin("root", 0, EmptyMap))
    /\ instance' = Len(registries) + 1
    /\ UNCHANGED <<globalCache, allocated>>

\* getRoot(): the root is constructed by the first call and returned by all
GetRoot ==
    /\ IF instance = 0
       THEN /\ registries' = Append(registries, NewInjector(EmptyMap, EmptyMap))
            /\ origin' = Append(origin, Origin("root", 0, EmptyMap))
            /\ instance' = Len(registries) + 1
       ELSE UNCHANGED <<registries, origin, instance>>
    /\ UNCHANGED <<globalCache, allocated>>

\* {...this.cache} handed to the new registry by fork
ForkCache(cache) == cache

Fork(r) ==
    /\ Len(registries) < MaxRegs
    /\ registries' = Append(registries,
           NewInjector(registries[r].factories, ForkCache(registries[r].cache)))
    /\ origin' = Append(origin, Origin("fork", r, registries[r].cache))
    /\ UNCHANGED <<instance, globalCache, allocated>>

\* FirstMissing, were the loop over deps left out
FirstMissingUnchecked(factories, deps, i) == 0

\* for (const dep of deps) if (this.factories[dep] === undefined): the first
\* missing dep's position, 0 when none is missing
RECURSIVE FirstMissing(_, _, _)
FirstMissing(factories, deps, i) ==
    IF i > Len(deps) THEN 0
    ELSE IF deps[i] \notin DOMAIN factories THEN i
    ELSE FirstMissing(factories, deps, i + 1)

\* `Missing dependency: ${dep}` with dep a symbol: ToString of a symbol throws
\* TypeError before MissingDependencyError is constructed
MissingDependency(dep) ==
    IF dep \in Keys THEN "TypeError" ELSE "MissingDependencyError"

\* AddFactory, were the spread of this.factories forgotten
AddFactoryAlone(factories, key, descriptor) == Put(EmptyMap, key, descriptor)

\* {...this.factories, [key]: {lifecycle, deps, factory}}
AddFactory(factories, key, descriptor) == Put(factories, key, descriptor)

\* RegisterCache, were the new registry given an empty cache
RegisterCacheEmpty(cache) == EmptyMap

\* {...this.cache} handed to the new registry by registerFactory
RegisterCache(cache) == cache

\* how registerFactory ends: "ok", or the error thrown in the loop over deps
RegisterStatus(factories, deps) ==
    LET missing == FirstMissing(factories, deps, 1)
    IN  IF missing # 0 THEN MissingDependency(deps[missing]) ELSE "ok"

\* the registry registerFactory returns when no dep is missing; id names the
\* factory function passed in
Registered(r, key, deps, lifecycleOpt, kind, id) ==
    LET descriptor == [lifecycle |-> DefaultLifecycle(lifecycleOpt), deps |-> deps,
                       factory |-> [kind |-> kind, id |-> id]]
    IN  NewInjector(AddFactory(registries[r].factories, key, descriptor),
                    RegisterCache(registries[r].cache))

\* registerFactory, were the instance constructed at registration
registerFactoryEager(r, key, deps, lifecycleOpt, kind) ==
    /\ RegisterStatus(registries[r].factories, deps) = "ok"
    /\ Len(registries) < MaxRegs /\ allocated < MaxInst
    /\ registries' = Append(registries,
           Registered(r, key, deps, lifecycleOpt, kind, Len(registries) + 1))
    /\ origin' = Append(origin, Origin("register", r, registries[r].cache))
    /\ allocated' = allocated + 1
    /\ UNCHANGED <<instance, globalCache>>

registerFactory(r, key, deps, lifecycleOpt, kind) ==
    IF RegisterStatus(registries[r].factories, deps) # "ok"
    THEN UNCHANGED vars
    ELSE /\ Len(registries) < MaxRegs
         /\ registries' = Append(registries,
                Registered(r, key, deps, lifecycleOpt, kind, Len(registries) + 1))
         /\ origin' = Append(origin, Origin("register", r, registries[r].cache))
         /\ UNCHANGED <<instance, globalCache, allocated>>

RegisterFactory(r, s) ==
    registerFactory(r, s.key, s.deps, s.lifecycle, s.kind)

\* ClassOptions, were the class's lifecycle field not read
ClassOptionsWithoutLifecycle(c) ==
    [lifecycle |-> NoLifecycle, key |-> c.key, deps |-> c.deps, kind |-> c.kind]

\* the options registerClass hands to registerFactory: the class's static
\* fields kServiceLifecycle (undefined when the class has none), kServiceKey
\* and kServiceDeps, and `new classConstructor(...args)` as the factory
ClassOptions(c) ==
    [lifecycle |-> c.lifecycle, key |-> c.key, deps |-> c.deps, kind |-> c.kind]

\* registerClass(classConstructor)
RegisterClass(r, c) ==
    LET opts == ClassOptions(c)
    IN  registerFactory(r, opts.key, opts.deps, opts.lifecycle, opts.kind)

Get(r, key) == \E p \in Primitives : Commit(r, GetResult(r, key, p))

Make(r, depKeys, kind) ==
    \E p \in Primitives : Commit(r, MakeResult(r, depKeys, kind, p))

Regs == 1..Len(registries)

Next ==
    \/ GetRoot
    \/ \E r \in Regs : Fork(r)
    \/ \E r \in Regs, s \in Services : RegisterFactory(r, s)
    \/ \E r \in Regs, c \in Classes : RegisterClass(r, c)
    \/ \E r \in Regs, key \in Keys : Get(r, key)
    \/ \E r \in Regs, deps \in DepLists, kind \in MakeKinds : Make(r, deps, kind)

Spec == Init /\ [][Next]_vars

\* ------------------------------------------------- vocabulary of the claims
Has(r, key) == key \in DOMAIN registries[r].factories

LifecycleOf(r, key) == registries[r].factories[key].lifecycle

Range(seq) == {seq[i] : i \in DOMAIN seq}

\* the keys reachable from key along declared deps, key included
RECURSIVE Closure(_, _)
Closure(factories, keys) ==
    LET more == keys \cup UNION {Range(factories[x].deps) : x \in keys \cap DOMAIN factories}
    IN  IF more = keys THEN keys ELSE Closure(factories, more)

Subtree(r, key) == Closure(registries[r].factories, {key})

\* no factory in key's dependency subtree fails
NoThrower(r, key) ==
    \A x \in Subtree(r, key) :
        Has(r, x) => registries[r].factories[x].factory.kind # "throws"

\* the state a call on registry r2 starts from once the call that ended in
\* res on registry r has been made
StartAfter(res, r, r2, primitive) ==
    [gc |-> res.gc,
     cache |-> IF r2 = r THEN res.cache ELSE registries[r2].cache,
     allocated |-> res.allocated, primitive |-> primitive,
     log |-> <<>>, status |-> "ok", value |-> Undefined]

\* r2.get(key) made right after the call that ended in res on registry r
GetAfter(res, r, r2, key, primitive) ==
    get(StartAfter(res, r, r2, primitive), registries[r2].factories, key, 1)

\* r2.make(depKeys, factory) made right after the call that ended in res on r
MakeAfter(res, r, r2, depKeys, kind, primitive) ==
    LET m == mapGet(StartAfter(res, r, r2, primitive), registries[r2].factories, depKeys, 1)
    IN  IF m.st.status # "ok"
        THEN m.st
        ELSE Invoke(m.st, "make", [kind |-> kind, id |-> 0], Spread(m.vals), 0)

\* the values the get calls for key returned in log, nested calls included
ReturnsOf(log, key) ==
    {log[i].val : i \in {n \in DOMAIN log : log[n].ev = "return" /\ log[n].key = key}}

\* the positions in log where key's factory is invoked
CallsOf(log, key) == {n \in DOMAIN log : log[n].ev = "call" /\ log[n].key = key}

\* no key below key depends on itself, directly or through others
Acyclic(r, key) ==
    \A x \in Subtree(r, key) :
        Has(r, x) =>
            x \notin Closure(registries[r].factories, Range(registries[r].factories[x].deps))

\* the keys whose entry in map `new` is not what it is in map `old`
Changed(old, new) ==
    {x \in DOMAIN new : x \notin DOMAIN old \/ new[x] # old[x]}

\* the keys whose get was entered in log and had not returned when log ends
Pending(log) ==
    {log[n].key : n \in {m \in DOMAIN log :
        /\ log[m].ev = "enter"
        /\ ~\E p \in (m + 1)..Len(log) :
              /\ log[p].ev = "return" /\ log[p].depth = log[m].depth
              /\ log[p].key = log[m].key}}

\* ---------------------------------------------------------------- claims

\* C1: for a key k registered GlobalSingleton in registries r1 and r2, with
\* no failing factory below it, r1.get(k) and then r2.get(k) both return, and
\* return the same instance; and the instance of k handed to a dependent's
\* factory is the one a later get(k) returns.
C1_GlobalSingletonIdentity ==
    /\ \A r1 \in Regs, r2 \in Regs, k \in Keys :
          ( /\ Has(r1, k) /\ LifecycleOf(r1, k) = GlobalSingleton /\ NoThrower(r1, k)
            /\ Has(r2, k) /\ LifecycleOf(r2, k) = GlobalSingleton /\ NoThrower(r2, k) )
          => \A p \in Primitives :
             LET g1 == GetResult(r1, k, p)
                 g2 == GetAfter(g1, r1, r2, k, p)
             IN  g1.status = "ok" /\ g2.status = "ok" /\ g1.value = g2.value
    /\ \A r \in Regs, c \in Keys, p \in Primitives :
          (Has(r, c) /\ NoThrower(r, c)) =>
             LET g == GetResult(r, c, p)
             IN  \A n \in CallsOf(g.log, c) : \A i \in DOMAIN g.log[n].args :
                    LET k == registries[r].factories[c].deps[i]
                    IN  (Has(r, k) /\ LifecycleOf(r, k) = GlobalSingleton)
                           => GetAfter(g, r, r, k, p).value = g.log[n].args[i]

\* C2: get on a registered key, of any lifecycle, with no failing factory in
\* its dependency subtree, returns an instance and raises no error.
C2_GetSucceedsOnRegisteredKeys ==
    \A r \in Regs, k \in Keys, p \in Primitives :
        (Has(r, k) /\ NoThrower(r, k)) => GetResult(r, k, p).status = "ok"

\* C3: for a key k registered LocalSingleton in registry r, once r.get(k)
\* has returned, every later r.get(k), made directly or while resolving
\* another key or a make, returns that same value.
C3_LocalSingletonIdentity ==
    \A r \in Regs, k \in Keys, p1 \in Primitives, p2 \in Primitives :
        (Has(r, k) /\ LifecycleOf(r, k) = LocalSingleton) =>
            LET g1 == GetResult(r, k, p1)
            IN  g1.status = "ok" =>
                  /\ ReturnsOf(g1.log, k) = {g1.value}
                  /\ \A j \in Keys :
                        ReturnsOf(GetAfter(g1, r, r, j, p2).log, k) \subseteq {g1.value}
                  /\ \A deps \in DepLists, kind \in MakeKinds :
                        ReturnsOf(MakeAfter(g1, r, r, deps, kind, p2).log, k)
                            \subseteq {g1.value}

\* C4 (as claimed): when r had resolved and cached LocalSingleton k before
\* r2 was made from r by registerFactory or registerClass, r2.get(k) returns
\* an independently constructed instance, not the one cached in r.
C4_LocalCacheNotInherited ==
    \A r2 \in Regs, k \in Keys :
        ( /\ origin[r2].via = "register"
          /\ k \in DOMAIN origin[r2].cache
          /\ LifecycleOf(origin[r2].parent, k) = LocalSingleton
          /\ Has(r2, k) /\ LifecycleOf(r2, k) = LocalSingleton )
        => \A p \in Primitives :
           LET g == GetResult(r2, k, p)
           IN  g.status = "ok" =>
                  /\ g.value # origin[r2].cache[k]
                  /\ CallsOf(g.log, k) # {}

\* C4 (amended): a registry made by registerFactory or registerClass starts
\* with a copy of its parent's local cache: for a key k that is LocalSingleton
\* in r2 and whose inherited entry passes get's cache test, r2.get(k) returns
\* the instance that was cached in the parent and invokes no factory.
C4_LocalCacheInheritedByRegistration ==
    \A r2 \in Regs, k \in Keys :
        ( /\ origin[r2].via = "register"
          /\ k \in DOMAIN origin[r2].cache /\ Truthy(origin[r2].cache[k])
          /\ Has(r2, k) /\ LifecycleOf(r2, k) = LocalSingleton )
        => \A p \in Primitives :
           LET g == GetResult(r2, k, p)
           IN  /\ g.status = "ok"
               /\ g.value = origin[r2].cache[k]
               /\ \A n \in DOMAIN g.log : g.log[n].ev # "call"

\* r resolved LocalSingleton k, r2 was then made from r by a registration, and
\* a get of k through r2 has returned r's instance
C4_Witness ==
    \E r2 \in Regs, k \in Keys :
        /\ origin[r2].via = "register"
        /\ k \in DOMAIN origin[r2].cache /\ Truthy(origin[r2].cache[k])
        /\ registries[origin[r2].parent].cache[k] = origin[r2].cache[k]
        /\ Has(r2, k) /\ LifecycleOf(r2, k) = LocalSingleton
        /\ DOMAIN registries[r2].cache # DOMAIN origin[r2].cache
        /\ GetResult(r2, k, Falsy).value = origin[r2].cache[k]

\* C5: for a LocalSingleton key k and a fork f of r: (i) when f was taken
\* before k was resolved through r, r.get(k) and f.get(k) return two
\* separately constructed instances (two different objects); (ii) when f
\* was taken after r.get(k) had populated r's local cache, f.get(k) returns
\* that instance without invoking k's factory.
\* (That a resolution through one never changes the other's cache holds by
\* construction: every registry is constructed with an object of its own.)
C5_ForkIsolationInBothOrderings ==
    \A f \in Regs, k \in Keys, p \in Primitives :
        (origin[f].via = "fork" /\ Has(f, k) /\ LifecycleOf(f, k) = LocalSingleton) =>
            LET r == origin[f].parent
            IN  IF k \notin DOMAIN origin[f].cache
                THEN LET g1 == GetResult(r, k, p)
                         g2 == GetAfter(g1, r, f, k, p)
                     IN  ( /\ g1.status = "ok" /\ g2.status = "ok"
                           /\ registries[f].factories[k].factory.kind = "object" )
                         => g1.value # g2.value
                ELSE LET g == GetResult(f, k, p)
                     IN  /\ g.status = "ok"
                         /\ g.value = origin[f].cache[k]
                         /\ CallsOf(g.log, k) = {}

\* C6: for a key k registered Ephemeral (nothing below it failing or
\* cyclic), r.get(k) returns, invokes k's factory exactly once, returns the
\* object it allocated, leaves no entry for k in any cache, and invokes the
\* factory of no singleton dep that a cache already holds.
C6_EphemeralFreshness ==
    \A r \in Regs, k \in Keys, p \in Primitives :
        (Has(r, k) /\ LifecycleOf(r, k) = Ephemeral /\ NoThrower(r, k) /\ Acyclic(r, k)) =>
            LET g == GetResult(r, k, p)
                d == registries[r].factories[k]
            IN  /\ g.status = "ok"
                /\ Cardinality({n \in CallsOf(g.log, k) : g.log[n].depth = 1}) = 1
                /\ d.factory.kind = "object" => g.value > allocated
                /\ k \notin DOMAIN g.cache /\ k \notin DOMAIN g.gc.map
                /\ \A x \in Range(d.deps) :
                      ( \/ LifecycleOf(r, x) = LocalSingleton /\ x \in DOMAIN registries[r].cache
                        \/ LifecycleOf(r, x) = GlobalSingleton /\ x \in DOMAIN globalCache.map )
                      => CallsOf(g.log, x) = {}

\* C7: a step that makes a registry by registerFactory or registerClass
\* leaves every existing registry as it was, so that get on it ends as
\* before on every key, and the new registry's descriptor map is its
\* parent's map with the one entry for the registered key set.
C7_RegistrationIsPersistentUpdate ==
    [][ LET n == Len(registries')
        IN  (n > Len(registries) /\ origin'[n].via = "register") =>
              LET old == registries[origin'[n].parent].factories
                  new == registries'[n].factories
              IN  /\ \A i \in Regs : registries'[i] = registries[i]
                  /\ \A i \in Regs, k \in Keys, p \in Primitives :
                        GetResult(i, k, p)' = GetResult(i, k, p)
                  /\ \E k \in Keys :
                        /\ DOMAIN new = DOMAIN old \cup {k}
                        /\ new[k].factory.id = n
                        /\ \A x \in DOMAIN old \ {k} : new[x] = old[x]
      ]_vars

\* a registry was made by registering a new key on a registry that already
\* had one
C7_Witness ==
    \E n \in Regs :
        /\ origin[n].via = "register"
        /\ DOMAIN registries[origin[n].parent].factories # {}
        /\ DOMAIN registries[n].factories # DOMAIN registries[origin[n].parent].factories

\* C8: registerFactory / registerClass with a dep absent from the registry
\* ends in MissingDependencyError, and with every dep present it succeeds.
\* (A failed registration is a step that changes nothing.)
C8_FailFastRegistration ==
    \A r \in Regs, s \in Services :
        RegisterStatus(registries[r].factories, s.deps) =
            IF \E i \in DOMAIN s.deps : ~Has(r, s.deps[i])
            THEN "MissingDependencyError"
            ELSE "ok"

\* the events of log[from..to] that enter or leave a get frame at depth
Frames(log, from, to, depth) ==
    SelectSeq(SubSeq(log, from, to),
              LAMBDA e : e.depth = depth /\ e.ev \in {"enter", "return"})

\* every factory invocation in log comes right after the gets of its deps,
\* made one after the other in declared order, each returned before the next
\* is entered, and takes their values in that order
PostOrder(log, factories) ==
    \A n \in DOMAIN log :
        (log[n].ev = "call" /\ log[n].key \in DOMAIN factories) =>
            LET k == log[n].key
                depth == log[n].depth
                deps == factories[k].deps
                start == CHOOSE m \in 1..(n - 1) :
                            /\ log[m] = Event("enter", k, depth, Undefined, 0, <<>>)
                            /\ \A p \in (m + 1)..(n - 1) :
                                  ~(log[p].ev = "enter" /\ log[p].depth = depth)
                inner == Frames(log, start + 1, n - 1, depth + 1)
            IN  /\ Len(log[n].args) = Len(deps)
                /\ Len(inner) = 2 * Len(deps)
                /\ \A i \in DOMAIN deps :
                      /\ inner[2 * i - 1].ev = "enter" /\ inner[2 * i - 1].key = deps[i]
                      /\ inner[2 * i].ev = "return" /\ inner[2 * i].key = deps[i]
                      /\ inner[2 * i].val = log[n].args[i]
                /\ log[n - 1] = IF deps = <<>> THEN log[start] ELSE inner[Len(inner)]

\* C9: in every get, deps are resolved in declared order, each completely
\* before the next, the factory is invoked only after all of them, and it
\* receives the resolved values positionally in deps order.
C9_PostOrderResolution ==
    \A r \in Regs, j \in Keys, p \in Primitives :
        PostOrder(GetResult(r, j, p).log, registries[r].factories)

\* a has been resolved through r, and r.get(c) constructs b on the way and
\* hands c's factory two different objects
C9_Witness ==
    \E r \in Regs :
        /\ Has(r, "c") /\ "a" \in DOMAIN registries[r].cache
        /\ LET g == GetResult(r, "c", Falsy)
           IN  /\ g.status = "ok"
               /\ CallsOf(g.log, "b") # {}
               /\ \E n \in CallsOf(g.log, "c") :
                     /\ Len(g.log[n].args) = 2
                     /\ Truthy(g.log[n].args[1]) /\ Truthy(g.log[n].args[2])
                     /\ g.log[n].args[1] # g.log[n].args[2]

\* C10 (as claimed): when a factory fails during r.get(k) or r.make, the
\* global cache and r's local cache are after the call what they were before.
C10_FactoryFailureCommitsNothing ==
    \A r \in Regs, p \in Primitives :
        /\ \A k \in Keys :
              LET g == GetResult(r, k, p)
              IN  g.status = "FactoryError" =>
                     g.cache = registries[r].cache /\ g.gc = globalCache
        /\ \A deps \in DepLists, kind \in MakeKinds :
              LET g == MakeResult(r, deps, kind, p)
              IN  g.status = "FactoryError" =>
                     g.cache = registries[r].cache /\ g.gc = globalCache

\* a call that ended in g on r, where a factory threw: the throw is the last
\* thing that happened; no cache entry was removed; the key whose factory
\* threw and the keys still being resolved got no entry; every entry that
\* changed belongs to a singleton key whose get returned that very value
FailureKeepsCompletedOnly(r, g) ==
    g.status = "FactoryError" =>
        LET thrown == g.log[Len(g.log)]
            local == Changed(registries[r].cache, g.cache)
            global == Changed(globalCache.map, g.gc.map)
        IN  /\ thrown.ev = "call"
            /\ DOMAIN registries[r].cache \subseteq DOMAIN g.cache
            /\ DOMAIN globalCache.map \subseteq DOMAIN g.gc.map
            /\ g.gc.defined = globalCache.defined
            /\ (local \cup global) \cap ({thrown.key} \cup Pending(g.log)) = {}
            /\ \A x \in local :
                  LifecycleOf(r, x) = LocalSingleton /\ g.cache[x] \in ReturnsOf(g.log, x)
            /\ \A x \in global :
                  LifecycleOf(r, x) = GlobalSingleton /\ g.gc.map[x] \in ReturnsOf(g.log, x)

\* C10 (amended): when a factory fails during r.get(k) or r.make, the error
\* reaches the caller and no cache gains an entry for the failed key or for a
\* key still being resolved; the caches change only by the entries of the
\* singleton dependencies whose own get had already returned.
C10_FactoryFailureKeepsCompletedOnly ==
    \A r \in Regs, p \in Primitives :
        /\ \A k \in Keys : FailureKeepsCompletedOnly(r, GetResult(r, k, p))
        /\ \A deps \in DepLists, kind \in MakeKinds :
              FailureKeepsCompletedOnly(r, MakeResult(r, deps, kind, p))

\* r.get(k) fails in a factory after a dependency was constructed and cached
C10_Witness ==
    \E r \in Regs, k \in Keys, p \in Primitives :
        LET g == GetResult(r, k, p)
        IN  /\ g.status = "FactoryError"
            /\ Changed(registries[r].cache, g.cache) # {}

\* the keys whose get was entered at depth, in the order of entering
EnteredAt(log, depth) ==
    LET enters == SelectSeq(log, LAMBDA e : e.ev = "enter" /\ e.depth = depth)
    IN  [i \in DOMAIN enters |-> enters[i].key]

\* C11: r.make(deps, factory), for registered deps with nothing failing or
\* cyclic below them, resolves the listed keys through r.get in order,
\* invokes the given factory exactly once (and so does a second make), and
\* changes caches only by the entries the gets of singleton keys add; nothing
\* is stored for make itself.  (The descriptor map is a readonly field that
\* make never touches.)
C11_MakeCachesNothingOfItsOwn ==
    \A r \in Regs, deps \in DepLists, kind \in MakeKinds, p \in Primitives :
        (\A i \in DOMAIN deps :
            Has(r, deps[i]) /\ NoThrower(r, deps[i]) /\ Acyclic(r, deps[i])) =>
            LET m1 == MakeResult(r, deps, kind, p)
                m2 == MakeAfter(m1, r, r, deps, kind, p)
            IN  /\ EnteredAt(m1.log, 1) = deps
                /\ Cardinality(CallsOf(m1.log, "make")) = 1
                /\ Cardinality(CallsOf(m2.log, "make")) = 1
                /\ \A x \in Changed(registries[r].cache, m1.cache) :
                      /\ Has(r, x) /\ LifecycleOf(r, x) = LocalSingleton
                      /\ m1.cache[x] \in ReturnsOf(m1.log, x)
                /\ \A x \in Changed(globalCache.map, m1.gc.map) :
                      /\ Has(r, x) /\ LifecycleOf(r, x) = GlobalSingleton
                      /\ m1.gc.map[x] \in ReturnsOf(m1.log, x)
                /\ DOMAIN registries[r].cache \subseteq DOMAIN m1.cache
                /\ DOMAIN globalCache.map \subseteq DOMAIN m1.gc.map

\* C12: every getRoot() returns the one registry that the first call
\* constructed, and that registry's descriptor map and local cache are empty
\* in every reachable state, and stay empty through any get or make on it.
C12_CanonicalEmptyRoot ==
    /\ instance \in {0} \cup Regs
    /\ \A i \in Regs : origin[i].via = "root" <=> i = instance
    /\ instance # 0 =>
          /\ registries[instance] = NewInjector(EmptyMap, EmptyMap)
          /\ \A k \in Keys, p \in Primitives :
                GetResult(instance, k, p).cache = EmptyMap
          /\ \A deps \in DepLists, kind \in MakeKinds, p \in Primitives :
                MakeResult(instance, deps, kind, p).cache = EmptyMap

\* registrations, a fork and gets were made on registries derived from the
\* root, which is still empty
C12_Witness ==
    /\ instance # 0
    /\ registries[instance] = NewInjector(EmptyMap, EmptyMap)
    /\ Len(registries) = MaxRegs
    /\ \E i \in Regs : origin[i].via = "fork"
    /\ \E i \in Regs : origin[i].via = "register" /\ registries[i].cache # EmptyMap

\* C13: the global cache is populated when a get first resolves a
\* GlobalSingleton key (with nothing failing or cyclic below it) and only
\* then, and an entry it holds is never removed nor replaced by a later get
\* or make on any registry.  (No other operation assigns to the global cache.)
C13_GlobalCacheLazyAndPermanent ==
    \A r \in Regs, p \in Primitives :
        /\ \A k \in Keys :
              LET g == GetResult(r, k, p)
              IN  /\ ( /\ Has(r, k) /\ LifecycleOf(r, k) = GlobalSingleton
                       /\ NoThrower(r, k) /\ Acyclic(r, k) )
                     => /\ g.status = "ok"
                        /\ k \in DOMAIN g.gc.map /\ g.gc.map[k] = g.value
                  /\ \A x \in Changed(globalCache.map, g.gc.map) :
                        /\ Has(r, x) /\ LifecycleOf(r, x) = GlobalSingleton
                        /\ x \notin DOMAIN globalCache.map
                        /\ g.gc.map[x] \in ReturnsOf(g.log, x)
                  /\ DOMAIN globalCache.map \subseteq DOMAIN g.gc.map
        /\ \A deps \in DepLists, kind \in MakeKinds :
              LET m == MakeResult(r, deps, kind, p)
              IN  /\ \A x \in Changed(globalCache.map, m.gc.map) :
                        x \notin DOMAIN globalCache.map
                  /\ DOMAIN globalCache.map \subseteq DOMAIN m.gc.map

\* C14: a step that makes a registry (getRoot, fork, registerFactory,
\* registerClass) invokes no factory and leaves the global cache and every
\* existing registry, its local cache included, as they were; a step that
\* invokes a factory or changes a cache makes no registry.
C14_RegistrationAndForkHaveNoSideEffects ==
    [][ /\ Len(registries') > Len(registries) =>
              /\ allocated' = allocated
              /\ globalCache' = globalCache
              /\ \A i \in Regs : registries'[i] = registries[i]
        /\ ( \/ allocated' # allocated
             \/ globalCache' # globalCache
             \/ \E i \in Regs : registries'[i].cache # registries[i].cache )
           => Len(registries') = Len(registries)
      ]_vars

\* registries were made by a fork and by a registration from registries
\* whose caches held instances, which they still hold
C14_Witness ==
    /\ allocated > 0
    /\ \E n \in Regs, m \in Regs :
          /\ origin[n].via = "fork" /\ origin[m].via = "register"
          /\ origin[n].cache # EmptyMap /\ origin[m].cache # EmptyMap
          /\ registries[origin[n].parent].cache = origin[n].cache
          /\ registries[origin[m].parent].cache = origin[m].cache

\* registry r2 was made by registering key again on a registry that had it
ReRegistered(r2, key) ==
    /\ origin[r2].via = "register"
    /\ Has(r2, key) /\ registries[r2].factories[key].factory.id = r2
    /\ Has(origin[r2].parent, key)

\* C15: when r2 was made by registering k again on a registry that already
\* had k (nothing failing or cyclic below the new descriptor), r2.get(k)
\* returns, and what it returns is not an instance that the earlier factory
\* had produced before the re-registration, whatever gets were made before.
C15_ReRegistrationOverrides ==
    \A r2 \in Regs, k \in Keys, p \in Primitives :
        (ReRegistered(r2, k) /\ NoThrower(r2, k) /\ Acyclic(r2, k)) =>
            LET g == GetResult(r2, k, p)
                before == origin[r2].cache
            IN  /\ g.status = "ok"
                /\ ~(k \in DOMAIN before /\ Truthy(before[k]) /\ g.value = before[k])

\* C16: when a cache holds an entry for a singleton key k (the global cache
\* for GlobalSingleton, r's local cache for LocalSingleton), whatever value
\* the factory had returned, r.get(k) returns the stored value, invokes no
\* factory and resolves no dep: it is entered and returns at once.
C16_CacheHitShortCircuits ==
    \A r \in Regs, k \in Keys, p \in Primitives :
        ( /\ Has(r, k)
          /\ \/ LifecycleOf(r, k) = LocalSingleton /\ k \in DOMAIN registries[r].cache
             \/ LifecycleOf(r, k) = GlobalSingleton /\ k \in DOMAIN globalCache.map )
        => LET g == GetResult(r, k, p)
               stored == IF LifecycleOf(r, k) = LocalSingleton
                         THEN registries[r].cache[k]
                         ELSE globalCache.map[k]
           IN  /\ g.status = "ok" /\ g.value = stored
               /\ g.log = << Event("enter", k, 1, Undefined, 0, <<>>),
                             Event("return", k, 1, stored, 0, <<>>) >>
               /\ g.cache = registries[r].cache /\ g.gc = globalCache

\* C17: no descriptor of any registry lists its own key among its deps, and
\* a registration whose deps contain the key being registered is rejected.
\* (Which error rejects it is the matter of C8.)
C17_NoDirectSelfReference ==
    \A r \in Regs :
        /\ \A k \in DOMAIN registries[r].factories :
              k \notin Range(registries[r].factories[k].deps)
        /\ \A s \in Services :
              s.key \in Range(s.deps) =>
                 RegisterStatus(registries[r].factories, s.deps) # "ok"

\* how r.registerClass(c) ends
ClassStatus(r, c) == RegisterStatus(registries[r].factories, ClassOptions(c).deps)

\* the registry r.registerClass(c) returns when no dep is missing
ClassRegistered(r, c, id) ==
    LET opts == ClassOptions(c)
    IN  Registered(r, opts.key, opts.deps, opts.lifecycle, opts.kind, id)

\* C18: r.registerClass(c) fails or succeeds as r.registerFactory does with
\* c's key, deps and lifecycle and `new c` as factory, and returns a registry
\* with the same descriptor map and the same cache (hence the same caching
\* behaviour); with no lifecycle given, either operation registers the key
\* as GlobalSingleton.
C18_RegisterClassIsRegisterFactory ==
    \A r \in Regs, c \in Classes :
        LET id == Len(registries) + 1
            viaClass == ClassRegistered(r, c, id)
            viaFactory == Registered(r, c.key, c.deps, c.lifecycle, c.kind, id)
        IN  /\ ClassStatus(r, c) = RegisterStatus(registries[r].factories, c.deps)
            /\ viaClass = viaFactory
            /\ c.lifecycle = NoLifecycle =>
                  /\ viaClass.factories[c.key].lifecycle = GlobalSingleton
                  /\ viaFactory = Registered(r, c.key, c.deps, GlobalSingleton, c.kind, id)

\* a registry was made by registering a class that has deps and declares no
\* lifecycle
C18_Witness ==
    \E n \in Regs, c \in Classes :
        /\ origin[n].via = "register"
        /\ c.lifecycle = NoLifecycle /\ c.deps # <<>>
        /\ ClassStatus(origin[n].parent, c) = "ok"
        /\ registries[n].factories = ClassRegistered(origin[n].parent, c, n).factories
        /\ LifecycleOf(n, c.key) = GlobalSingleton

\* C19: in every registry, every key listed in the deps of a descriptor is a
\* key of that registry's descriptor map, and the resolution that get starts
\* on a registered key looks up registered keys only.
C19_DependencyClosure ==
    \A r \in Regs :
        LET factories == registries[r].factories
        IN  /\ \A k \in DOMAIN factories : Range(factories[k].deps) \subseteq DOMAIN factories
            /\ \A k \in DOMAIN factories, p \in Primitives :
                  LET g == GetResult(r, k, p)
                  IN  \A n \in DOMAIN g.log : g.log[n].key \in DOMAIN factories

\* a registry made by registering a key again holds a descriptor with deps,
\* and resolving it looks up the deps
C19_Witness ==
    \E r \in Regs, k \in Keys, x \in Keys :
        /\ ReRegistered(r, k)
        /\ Has(r, x) /\ registries[r].factories[x].deps # <<>>
        /\ \E n \in DOMAIN GetResult(r, x, Falsy).log :
              GetResult(r, x, Falsy).log[n].depth = 2

====
